---- MODULE Spec2Model ----
(***************************************************************************)
(* mcp-server-bfl: an MCP server in front of the Black Forest Labs image   *)
(* generation API.  Two generations of the server are modelled:            *)
(*   - the registry server (src/unnamed/part_000): three generate tools    *)
(*     that always wait, the get_request_status tool and the in-memory     *)
(*     activeRequests map            -> specification Spec                 *)
(*   - the current server (src/src/index.ts): generate_image with a model  *)
(*     selector and a wait flag, no registry -> specification SpecIndex    *)
(* Every handler is an async function: it runs without interruption from   *)
(* one await to the next, so each action below is one such stretch.        *)
(***************************************************************************)
EXTENDS Integers, Sequences, FiniteSets, TLC

VARIABLES activeRequests, tasks, nextId, now, calls, returned, timedOut

vars == <<activeRequests, tasks, nextId, now, calls, returned, timedOut>>

(* ---------------------------- bounds ---------------------------------- *)
\* number of invocations the host issues in all
MaxCalls == 3
\* pollUntilComplete's attempt budget (60 in the source, scaled down)
maxAttempts == 3

\* the invocations that can be in flight at once
Tasks == {1, 2}

(* ----------------------------- values --------------------------------- *)
\* what a template literal prints for an absent value
Absent == "undefined"
NoId == "none"
\* ids the provider hands out, in order
JobIds == <<"j1", "j2">>
KnownIds == {JobIds[n] : n \in 1..Len(JobIds)}
Locators == {"u1", "u2"}
\* the registry server is run with one locator, to keep its state space small
LegacyLocators == {"u1"}
Details == {"e1"}
Prompts == {"p1"}

\* ResultResponse bodies the provider can send with a 2xx status
Body(st, sample, err) == [status |-> st, sample |-> sample, error |-> err]
PendingBody == Body("Pending", Absent, Absent)
ReadyBody(u) == Body("Ready", u, Absent)
ReadyBodies == {ReadyBody(u) : u \in Locators \cup {Absent}}
ErrorBodies == {Body("Error", Absent, e) : e \in Details \cup {Absent}}
\* a status string of the provider that the ResultResponse type does not list
OtherBody == Body("Task not found", Absent, Absent)
NoBody == Body("none", Absent, Absent)
Bodies == {PendingBody, OtherBody} \cup ReadyBodies \cup ErrorBodies

\* an HTTP exchange ends in a 2xx body, a non-2xx status or a network failure
OkResponses == {[kind |-> "ok", body |-> b] : b \in Bodies}
FailResponses ==
  {[kind |-> k, body |-> NoBody] : k \in {"http", "network", "unparsable"}}
Responses == OkResponses \cup FailResponses
LegacyResponses ==
  {r \in Responses : r.body.status = "Ready" => r.body.sample \in LegacyLocators \cup {Absent}}

\* what an invocation hands back to the host: the channel (a text content
\* block, resource contents, or a protocol-level error), the opening words,
\* the message the opening words wrap (cause) and the values interpolated
NoOutcome ==
  [channel |-> "none", head |-> "none", cause |-> "none", id |-> NoId,
   model |-> "none", status |-> "none", url |-> Absent, error |-> Absent,
   hint |-> "none", path |-> "none", mimeType |-> Absent, blob |-> Absent]
\* a text content block: its opening words and the values it interpolates
TextOutcome(head, id, model, status, url, error) ==
  [NoOutcome EXCEPT !.channel = "text", !.head = head, !.id = id,
                    !.model = model, !.status = status, !.url = url,
                    !.error = error]

\* arguments and request bodies are objects: functions from the keys that
\* are present to their values
NoParams == [k \in {} |-> 0]

NewTask ==
  [pc |-> "idle", tool |-> "none", model |-> "none", wait |-> TRUE,
   prompt |-> "none", endpoint |-> "none", id |-> NoId, pollingUrl |-> Absent,
   i |-> 0, fetches |-> 0, delays |-> 0, received |-> 0, terminals |-> 0,
   firstTerminal |-> NoBody, firstAt |-> 0, failed |-> 0, result |-> NoBody,
   submitted |-> "none", transfers |-> 0, transfer |-> "none", opened |-> 0,
   bodyOpen |-> FALSE, fileOpen |-> FALSE, path |-> "none",
   file |-> "untouched",
   mimeType |-> Absent, params |-> NoParams, payload |-> NoParams,
   err |-> "none", outcome |-> NoOutcome]

NoRequests == [k \in {} |-> NoBody]

Init ==
  /\ activeRequests = NoRequests
  /\ tasks = [t \in Tasks |-> NewTask]
  /\ nextId = 0
  /\ now = 0
  /\ calls = 0
  /\ returned = NewTask
  /\ timedOut = {}

\* the host may issue an invocation: it gets the first slot that is not busy
Free(t) ==
  /\ calls < MaxCalls
  /\ tasks[t].pc = "idle"
  /\ \A u \in Tasks : u < t => tasks[u].pc # "idle"

\* a handler ran up to its next await (the slot keeps it) or up to its return
\* (the slot is free again and the host holds the finished invocation)
Settle(t, tk, reg) ==
  /\ tasks' = [tasks EXCEPT ![t] = IF tk.pc = "done" THEN NewTask ELSE tk]
  /\ returned' = IF tk.pc = "done" THEN tk ELSE NewTask
  /\ timedOut' = IF tk.pc = "done" /\ tk.err = "Polling timeout"
                   THEN timedOut \cup {tk.id} ELSE timedOut
  /\ activeRequests' = reg

(* Bookkeeping of what the provider sent to an invocation: the number of   *)
(* status bodies received, how many of them were terminal, the first        *)
(* terminal one and its position, and the number of status fetches that     *)
(* failed.  timedOut remembers the jobs whose poll ran out of attempts.     *)
(* params are the arguments the handler got and payload the body it        *)
(* posted.                                                                  *)
(* submitted is how the submit call was answered; transfers, transfer,      *)
(* opened, bodyOpen and fileOpen follow the image transfer of an            *)
(* invocation: the transfers started, how the last one ended, the           *)
(* destination files opened, and whether the response body and the          *)
(* destination file are open now; file is what the invocation did to the    *)
(* file at path: nothing, a truncated or partly written file, or all bytes. *)
IsTerminal(b) == b.status \in {"Ready", "Error"}
Count(tk, b) ==
  [tk EXCEPT !.received = @ + 1,
             !.terminals = IF IsTerminal(b) THEN @ + 1 ELSE @,
             !.firstTerminal = IF IsTerminal(b) /\ tk.terminals = 0 THEN b ELSE @,
             !.firstAt = IF IsTerminal(b) /\ tk.terminals = 0
                           THEN tk.received + 1 ELSE @]
CountFail(tk) == [tk EXCEPT !.failed = @ + 1]

(* ------------------------ provider client ------------------------------ *)
\* the error an exchange that did not end in 2xx raises
FetchError(resp) ==
  CASE resp.kind = "http" -> "BFL API error"
    [] resp.kind = "network" -> "fetch failed"
    [] OTHER -> "SyntaxError"

\* getResult of the registry server: the 2xx body is cast, not validated
getResultLegacy(resp) ==
  IF resp.kind = "ok"
    THEN [ok |-> TRUE, body |-> resp.body, err |-> "none"]
    ELSE [ok |-> FALSE, body |-> NoBody, err |-> FetchError(resp)]

\* an exception leaves the function that raised it
Throw(tk, e) == [tk EXCEPT !.pc = "threw", !.err = e]

(* --------------------------- the poller -------------------------------- *)
\* mutant: the loop condition lets one attempt too many through
PollLoopHeadInclusive(tk) ==
  IF tk.i <= maxAttempts
    THEN [tk EXCEPT !.pc = "poll", !.fetches = @ + 1]
    ELSE Throw(tk, "Polling timeout")

\* for (...; i < maxAttempts; ...) { await getResult(...)  |  throw timeout
PollLoopHead(tk) ==
  IF tk.i < maxAttempts
    THEN [tk EXCEPT !.pc = "poll", !.fetches = @ + 1]
    ELSE Throw(tk, "Polling timeout")

\* mutant: a failed fetch is swallowed and the loop sleeps and tries again
PollOnFetchErrorRetry(tk, e) == [tk EXCEPT !.pc = "sleep"]

\* getResult rejected: the rejection leaves pollUntilComplete at once
PollOnFetchError(tk, e) == Throw(tk, e)

\* mutant: only Ready ends the loop
PollOnResultReadyOnly(tk, b) ==
  IF b.status = "Ready"
    THEN [tk EXCEPT !.pc = "returned", !.result = b]
    ELSE [tk EXCEPT !.pc = "sleep"]

\* getResult resolved with body b
PollOnResult(tk, b) ==
  IF b.status = "Ready" \/ b.status = "Error"
    THEN [tk EXCEPT !.pc = "returned", !.result = b]
    ELSE [tk EXCEPT !.pc = "sleep"]

\* mutant: the delay never ends
PollOnSleepDoneNever(tk) == tk

\* the setTimeout promise resolved: i++ and back to the loop head
PollOnSleepDone(tk) ==
  PollLoopHead([tk EXCEPT !.i = @ + 1, !.delays = @ + 1])

(* ------------------- registry server: generate tools ------------------- *)
LegacyTools ==
  {"generate_image_flux_dev", "generate_image_flux_pro",
   "generate_image_flux_pro_ultra"}

LegacyEndpoint(tool) ==
  CASE tool = "generate_image_flux_dev" -> "/v1/flux-dev"
    [] tool = "generate_image_flux_pro" -> "/v1/flux-pro-1.1"
    [] OTHER -> "/v1/flux-pro-1.1-ultra"

LegacyModel(tool) ==
  CASE tool = "generate_image_flux_dev" -> "flux-dev"
    [] tool = "generate_image_flux_pro" -> "flux-pro-1.1"
    [] OTHER -> "flux-pro-1.1-ultra"

\* activeRequests.set(id, {id, model, prompt, status: "Pending", createdAt})
RegistrySet(reg, id, model, prompt, at) ==
  [k \in DOMAIN reg \cup {id} |->
     IF k = id
       THEN [id |-> id, model |-> model, prompt |-> prompt,
             status |-> "Pending", result |-> Absent, error |-> Absent,
             createdAt |-> at]
       ELSE reg[k]]

\* mutant: the catch clause marks the job as failed
LegacyGenerateFinishMarksError(tk, reg) ==
  IF tk.pc = "threw"
    THEN [task |-> [tk EXCEPT !.pc = "done",
                      !.outcome = TextOutcome("Failed to generate image", NoId,
                                              "none", "none", Absent, tk.err)],
          reg |-> IF tk.id \in DOMAIN reg
                    THEN [reg EXCEPT ![tk.id].status = "Error"] ELSE reg]
    ELSE IF tk.result.status = "Error"
      THEN [task |-> [tk EXCEPT !.pc = "done",
                        !.outcome = TextOutcome("Image generation failed", NoId,
                                                "none", "none", Absent,
                                                tk.result.error)],
            reg |-> [reg EXCEPT ![tk.id].status = "Error",
                                ![tk.id].error = tk.result.error]]
      ELSE [task |-> [tk EXCEPT !.pc = "done",
                        !.outcome = TextOutcome("Image generated successfully!",
                                                tk.id, "none", "none",
                                                tk.result.sample, Absent)],
            reg |-> [reg EXCEPT ![tk.id].status = "Ready",
                                ![tk.id].result = tk.result.sample]]

\* mutant: the Error branch records the status but not the detail
LegacyGenerateFinishNoDetail(tk, reg) ==
  IF tk.pc = "threw"
    THEN [task |-> [tk EXCEPT !.pc = "done",
                      !.outcome = TextOutcome("Failed to generate image", NoId,
                                              "none", "none", Absent, tk.err)],
          reg |-> reg]
    ELSE IF tk.result.status = "Error"
      THEN [task |-> [tk EXCEPT !.pc = "done",
                        !.outcome = TextOutcome("Image generation failed", NoId,
                                                "none", "none", Absent,
                                                tk.result.error)],
            reg |-> [reg EXCEPT ![tk.id].status = "Error"]]
      ELSE [task |-> [tk EXCEPT !.pc = "done",
                        !.outcome = TextOutcome("Image generated successfully!",
                                                tk.id, "none", "none",
                                                tk.result.sample, Absent)],
            reg |-> [reg EXCEPT ![tk.id].status = "Ready",
                                ![tk.id].result = tk.result.sample]]

\* the handler after pollUntilComplete settled: the Error branch, the Ready
\* branch, or the catch clause
LegacyGenerateFinish(tk, reg) ==
  IF tk.pc = "threw"
    THEN [task |-> [tk EXCEPT !.pc = "done",
                      !.outcome = TextOutcome("Failed to generate image", NoId,
                                              "none", "none", Absent, tk.err)],
          reg |-> reg]
    ELSE IF tk.result.status = "Error"
      THEN [task |-> [tk EXCEPT !.pc = "done",
                        !.outcome = TextOutcome("Image generation failed", NoId,
                                                "none", "none", Absent,
                                                tk.result.error)],
            reg |-> [reg EXCEPT ![tk.id].status = "Error",
                                ![tk.id].error = tk.result.error]]
      ELSE [task |-> [tk EXCEPT !.pc = "done",
                        !.outcome = TextOutcome("Image generated successfully!",
                                                tk.id, "none", "none",
                                                tk.result.sample, Absent)],
            reg |-> [reg EXCEPT ![tk.id].status = "Ready",
                                ![tk.id].result = tk.result.sample]]

\* run the handler on from a poller step, up to its next await or its return
LegacyGenerateResume(tk, reg) ==
  IF tk.pc \in {"returned", "threw"}
    THEN LegacyGenerateFinish(tk, reg)
    ELSE [task |-> tk, reg |-> reg]

\* the optional parameters of the input schema of a tool
OptionalKeys(tool) ==
  IF tool = "generate_image_flux_pro_ultra"
    THEN {"aspect_ratio", "width", "height", "safety_tolerance"}
    ELSE {"aspect_ratio", "width", "height", "num_images", "safety_tolerance"}
NumberKeys == {"width", "height", "num_images", "safety_tolerance", "seed"}

\* the arguments of a call that supplies prompt and the keys of S, those of
\* F with the value 0 or "" and the others with a value that is not falsy
Params(prompt, S, F) ==
  [k \in S \cup {"prompt"} |->
     IF k = "prompt" THEN prompt
     ELSE IF k \in NumberKeys THEN (IF k \in F THEN 0 ELSE 2)
     ELSE (IF k \in F THEN "" ELSE "16:9")]

\* v && ... of JavaScript, for the value of key k
Truthy(k, v) == IF k \in NumberKeys THEN v # 0 ELSE v # ""

\* requestBody of the generate tools: prompt, each of aspect_ratio, width,
\* height and num_images when its value is truthy, and safety_tolerance when
\* it is not undefined
LegacyRequestBody(tool, params) ==
  LET kept == {"prompt"}
                \cup {k \in (DOMAIN params) \cap (OptionalKeys(tool) \ {"safety_tolerance"}) :
                        Truthy(k, params[k])}
                \cup ((DOMAIN params) \cap {"safety_tolerance"})
  IN [k \in kept |-> params[k]]

\* a generate tool is invoked with params: the handler builds the body and
\* posts the job
LegacyInvoke(t, tool, params) ==
  /\ Free(t)
  /\ calls' = calls + 1
  /\ Settle(t, [NewTask EXCEPT !.pc = "submit", !.tool = tool,
                                !.model = LegacyModel(tool),
                                !.prompt = params["prompt"],
                                !.endpoint = LegacyEndpoint(tool),
                                !.params = params,
                                !.payload = LegacyRequestBody(tool, params)],
            activeRequests)
  /\ UNCHANGED <<nextId, now>>

\* the host invokes one of the generate tools with a prompt alone
generate_image_flux(t) ==
  \E tool \in LegacyTools, prompt \in Prompts :
    LegacyInvoke(t, tool, Params(prompt, {}, {}))

\* the host invokes one of the generate tools with any of the optional
\* parameters, each with a falsy or a truthy value
generate_image_flux_with(t) ==
  \E tool \in LegacyTools, prompt \in Prompts :
    \E S \in SUBSET OptionalKeys(tool) :
      \E F \in SUBSET S :
        LegacyInvoke(t, tool, Params(prompt, S, F))

\* makeBFLRequest resolved: record the job, then enter pollUntilComplete
LegacySubmitOk(t) ==
  /\ tasks[t].pc = "submit"
  /\ nextId < Len(JobIds)
  /\ LET id == JobIds[nextId + 1]
         reg == RegistrySet(activeRequests, id, tasks[t].model,
                            tasks[t].prompt, now)
         r == LegacyGenerateResume(PollLoopHead([tasks[t] EXCEPT !.id = id]),
                                   reg)
     IN Settle(t, r.task, r.reg)
  /\ nextId' = nextId + 1
  /\ now' = now + 1
  /\ UNCHANGED calls

\* makeBFLRequest rejected: straight to the catch clause
LegacySubmitFail(t) ==
  \E resp \in FailResponses :
    /\ tasks[t].pc = "submit"
    /\ LET r == LegacyGenerateFinish(Throw(tasks[t], FetchError(resp)),
                                     activeRequests)
       IN Settle(t, r.task, r.reg)
    /\ UNCHANGED <<nextId, now, calls>>

\* a status fetch of the poller settled
LegacyPollFetched(t) ==
  \E resp \in LegacyResponses :
    /\ tasks[t].pc = "poll"
    /\ tasks[t].tool \in LegacyTools
    /\ LET g == getResultLegacy(resp)
           tk == IF g.ok THEN PollOnResult(Count(tasks[t], g.body), g.body)
                         ELSE PollOnFetchError(CountFail(tasks[t]), g.err)
           r == LegacyGenerateResume(tk, activeRequests)
       IN Settle(t, r.task, r.reg)
    /\ UNCHANGED <<nextId, now, calls>>

\* the inter-attempt delay of the poller elapsed
LegacyPollSlept(t) ==
  /\ tasks[t].pc = "sleep"
  /\ tasks[t].tool \in LegacyTools
  /\ LET r == LegacyGenerateResume(PollOnSleepDone(tasks[t]), activeRequests)
     IN Settle(t, r.task, r.reg)
  /\ UNCHANGED <<nextId, now, calls>>

(* ----------------- registry server: get_request_status ----------------- *)
\* mutant: an id the registry lacks gets an entry
StatusUpdateUpsert(reg, id, b) ==
  [k \in DOMAIN reg \cup {id} |->
     [id |-> id,
      model |-> IF k \in DOMAIN reg THEN reg[k].model ELSE "none",
      prompt |-> IF k \in DOMAIN reg THEN reg[k].prompt ELSE "none",
      status |-> IF k = id THEN b.status ELSE reg[k].status,
      result |-> IF k = id /\ b.status = "Ready" THEN b.sample
                 ELSE IF k \in DOMAIN reg THEN reg[k].result ELSE Absent,
      error |-> IF k = id /\ b.status = "Error" THEN b.error
                ELSE IF k \in DOMAIN reg THEN reg[k].error ELSE Absent,
      createdAt |-> IF k \in DOMAIN reg THEN reg[k].createdAt ELSE 0]]

\* mutant: the update files a new entry in place of the old one
StatusUpdateReplaces(reg, id, b) ==
  IF id \in DOMAIN reg
    THEN [reg EXCEPT ![id] =
            [id |-> id, model |-> "none", prompt |-> "none",
             status |-> b.status,
             result |-> IF b.status = "Ready" THEN b.sample ELSE Absent,
             error |-> IF b.status = "Error" THEN b.error ELSE Absent,
             createdAt |-> now]]
    ELSE reg

\* mutant: the update is applied to every entry
StatusUpdateAll(reg, id, b) ==
  IF id \in DOMAIN reg
    THEN [k \in DOMAIN reg |->
            [reg[k] EXCEPT !.status = b.status,
                           !.result = IF b.status = "Ready" THEN b.sample ELSE @,
                           !.error = IF b.status = "Error" THEN b.error ELSE @]]
    ELSE reg

\* the registry update of get_request_status
StatusUpdate(reg, id, b) ==
  IF id \in DOMAIN reg
    THEN [reg EXCEPT ![id] =
            [@ EXCEPT !.status = b.status,
                      !.result = IF b.status = "Ready" THEN b.sample ELSE @,
                      !.error = IF b.status = "Error" THEN b.error ELSE @]]
    ELSE reg

\* the response text of get_request_status
StatusOutcome(id, b) ==
  TextOutcome("Request ID", id, "none", b.status,
              IF b.status = "Ready" /\ b.sample # Absent THEN b.sample ELSE Absent,
              IF b.status = "Error" THEN b.error ELSE Absent)

\* the host invokes get_request_status: the handler fetches the status
get_request_status(t) ==
  \E id \in KnownIds :
    /\ Free(t)
    /\ calls' = calls + 1
    /\ Settle(t, [NewTask EXCEPT !.pc = "status",
                                  !.tool = "get_request_status",
                                  !.id = id, !.fetches = 1],
              activeRequests)
    /\ UNCHANGED <<nextId, now>>

\* get_request_status after its fetch settled: the update and the text, or
\* the catch clause
StatusFinish(tk, g, reg) ==
  IF g.ok
    THEN [task |-> [Count(tk, g.body) EXCEPT
                      !.pc = "done", !.result = g.body,
                      !.outcome = StatusOutcome(tk.id, g.body)],
          reg |-> StatusUpdate(reg, tk.id, g.body)]
    ELSE [task |-> [CountFail(tk) EXCEPT !.pc = "done", !.err = g.err,
                      !.outcome = TextOutcome("Failed to get status", NoId,
                                              "none", "none", Absent, g.err)],
          reg |-> reg]

\* the status fetch of get_request_status settled
StatusFetched(t) ==
  \E resp \in LegacyResponses :
    /\ tasks[t].pc = "status"
    /\ LET r == StatusFinish(tasks[t], getResultLegacy(resp), activeRequests)
       IN Settle(t, r.task, r.reg)
    /\ UNCHANGED <<nextId, now, calls>>

(* ------------- registry server: the request_details resource ----------- *)
\* a resource result: the JSON text of one job
ContentsOutcome(id, model, status, url, error) ==
  [NoOutcome EXCEPT !.channel = "contents", !.head = "details", !.id = id,
                    !.model = model, !.status = status, !.url = url,
                    !.error = error]

\* an error thrown out of a resource handler: the read fails at the protocol
ErrorOutcome(head, error) ==
  [NoOutcome EXCEPT !.channel = "error", !.head = head, !.error = error]

\* the read handler: activeRequests.get(requestId), throw when it is missing,
\* else the entry as JSON; the provider is not asked
LegacyDetails(tk, reg) ==
  IF tk.id \notin DOMAIN reg
    THEN [tk EXCEPT !.pc = "done", !.err = "No request found",
            !.outcome = ErrorOutcome("No request found with ID", Absent)]
    ELSE [tk EXCEPT !.pc = "done",
            !.outcome = ContentsOutcome(reg[tk.id].id, reg[tk.id].model,
                                        reg[tk.id].status, reg[tk.id].result,
                                        reg[tk.id].error)]

\* the host reads bfl://requests/{requestId}
LegacyRequestDetails(t) ==
  \E id \in KnownIds :
    /\ Free(t)
    /\ calls' = calls + 1
    /\ Settle(t, LegacyDetails([NewTask EXCEPT !.tool = "request_details",
                                               !.id = id],
                              activeRequests),
              activeRequests)
    /\ UNCHANGED <<nextId, now>>

(* ------------------ current server: provider client -------------------- *)
\* what the provider can answer to the submit POST
SubmitResponses ==
  {[kind |-> "ok", hasUrl |-> h] : h \in BOOLEAN}
    \cup {[kind |-> k, hasUrl |-> FALSE] : k \in {"http", "network", "unparsable"}}

\* the URL the provider names for polling job id (the model keeps the id)
PollingUrl(id) == id

\* makeBFLRequest: non-2xx and network failures throw, and so does a body
\* imageGenerationResponseSchema does not accept
makeBFLRequest(resp, id) ==
  IF resp.kind # "ok"
    THEN [ok |-> FALSE, id |-> NoId, pollingUrl |-> Absent, err |-> FetchError(resp)]
    ELSE IF ~resp.hasUrl
      THEN [ok |-> FALSE, id |-> NoId, pollingUrl |-> Absent, err |-> "ZodError"]
      ELSE [ok |-> TRUE, id |-> id, pollingUrl |-> PollingUrl(id), err |-> "none"]

\* getResult: as above, with resultResponseSchema
getResult(resp) ==
  IF resp.kind # "ok"
    THEN [ok |-> FALSE, body |-> NoBody, err |-> FetchError(resp)]
    ELSE IF resp.body.status \notin {"Pending", "Ready", "Error"}
      THEN [ok |-> FALSE, body |-> NoBody, err |-> "ZodError"]
      ELSE [ok |-> TRUE, body |-> resp.body, err |-> "none"]

\* getResultById: the same exchange, addressed by the id of the job
getResultById(resp) ==
  IF resp.kind # "ok"
    THEN [ok |-> FALSE, body |-> NoBody, err |-> FetchError(resp)]
    ELSE IF resp.body.status \notin {"Pending", "Ready", "Error"}
      THEN [ok |-> FALSE, body |-> NoBody, err |-> "ZodError"]
      ELSE [ok |-> TRUE, body |-> resp.body, err |-> "none"]

\* how fetch(result.result.sample) settles: it rejects (network), or resolves
\* with a non-2xx status (http) or a 2xx status; a response carries a body
\* stream or none, and a content-type header or none
ContentTypes == {"image/png"}
TransferResponses ==
  {[kind |-> "network", hasBody |-> FALSE, contentType |-> Absent],
   [kind |-> "http", hasBody |-> TRUE, contentType |-> Absent]}
    \cup {[kind |-> "ok", hasBody |-> h, contentType |-> c] :
            h \in BOOLEAN, c \in ContentTypes \cup {Absent}}

\* the bytes of an image, and Buffer.from(bytes).toString('base64')
Bytes == {"", "b1"}
Base64(bytes) == IF bytes = "" THEN "" ELSE "YjE="

(* -------------------- current server: generate_image -------------------- *)
Models ==
  {"flux-dev", "flux-pro", "flux-pro-ultra", "flux-kontext-pro",
   "flux-kontext-max"}

MODEL_ENDPOINTS ==
  [m \in Models |->
     CASE m = "flux-dev" -> "/v1/flux-dev"
       [] m = "flux-pro" -> "/v1/flux-pro-1.1"
       [] m = "flux-pro-ultra" -> "/v1/flux-pro-1.1-ultra"
       [] m = "flux-kontext-pro" -> "/v1/flux-kontext-pro"
       [] OTHER -> "/v1/flux-kontext-max"]

\* model strings other than the five: one no object knows, and one that
\* names a member every plain object inherits
OtherModels == {"flux-schnell", "constructor"}
ModelInputs == Models \cup OtherModels
ObjectPrototype == {"constructor"}

\* MODEL_ENDPOINTS[model] on a plain object: the path of an own key, an
\* inherited member (which is truthy) for a key of Object.prototype, and
\* undefined for any other key
Endpoint(model) ==
  IF model \in DOMAIN MODEL_ENDPOINTS
    THEN MODEL_ENDPOINTS[model]
    ELSE IF model \in ObjectPrototype THEN "[inherited]" ELSE Absent

\* mutant: the input schema takes any string as model
generateImageSchemaAnyString(model) == TRUE

\* the input schema: a union discriminated on model, one literal per variant
generateImageSchema(model) ==
  model \in {"flux-dev", "flux-pro", "flux-pro-ultra", "flux-kontext-pro",
             "flux-kontext-max"}

\* the answer to arguments the input schema rejects: the handler is not
\* entered, the call fails with invalid params and the message of the union
\* names the values it accepts
InvalidParams(tk) ==
  [tk EXCEPT !.pc = "done", !.err = "InvalidParams",
             !.outcome = [ErrorOutcome("Invalid arguments", Absent)
                            EXCEPT !.model = tk.model, !.hint = "Valid options"]]

\* the text returned when wait is false
SubmittedOutcome(tk) ==
  [TextOutcome("Image generation request submitted.", tk.id, tk.model, "none",
               Absent, Absent) EXCEPT !.hint = "bfl://requests"]

\* the handler after pollUntilComplete settled: the Error branch, the success
\* text, or the catch clause
GenerateFinish(tk) ==
  IF tk.pc = "threw"
    THEN [tk EXCEPT !.pc = "done",
            !.outcome = TextOutcome("Failed to generate image", NoId, "none",
                                    "none", Absent, tk.err)]
    ELSE IF tk.result.status = "Error"
      THEN [tk EXCEPT !.pc = "done",
              !.outcome = TextOutcome("Image generation failed", NoId, "none",
                                      "none", Absent, tk.result.error)]
      ELSE [tk EXCEPT !.pc = "done",
              !.outcome = [TextOutcome("Image generated successfully!", tk.id,
                                       tk.model, "none", tk.result.sample,
                                       Absent) EXCEPT !.hint = "bfl://images"]]

GenerateResume(tk) ==
  IF tk.pc \in {"returned", "threw"} THEN GenerateFinish(tk) ELSE tk

\* mutant: the wait flag is ignored and every invocation polls
GenerateSubmittedAlwaysPolls(tk, r) ==
  IF ~r.ok
    THEN GenerateFinish(Throw(tk, r.err))
    ELSE GenerateResume(PollLoopHead([tk EXCEPT !.id = r.id,
                                                !.pollingUrl = r.pollingUrl]))

\* the handler after makeBFLRequest settled with r
GenerateSubmitted(tk, r) ==
  IF ~r.ok
    THEN GenerateFinish(Throw(tk, r.err))
    ELSE LET tk1 == [tk EXCEPT !.id = r.id, !.pollingUrl = r.pollingUrl]
         IN IF ~tk1.wait
              THEN [tk1 EXCEPT !.pc = "done", !.outcome = SubmittedOutcome(tk1)]
              ELSE GenerateResume(PollLoopHead(tk1))

\* the parsed arguments of a call: model, prompt, wait (the schema fills in
\* its default) and a seed of 0
GenerateParams(model, wait, prompt) ==
  [k \in {"model", "prompt", "wait", "seed"} |->
     CASE k = "model" -> model
       [] k = "prompt" -> prompt
       [] k = "wait" -> wait
       [] OTHER -> 0]

\* const { model: _, wait: __, ...requestBody } = params
RequestBody(params) ==
  [k \in (DOMAIN params) \ {"model", "wait"} |-> params[k]]

\* the host invokes generate_image: the arguments pass the input schema or
\* the call is rejected; the handler looks the endpoint up and posts the job
generate_image(t) ==
  \E model \in ModelInputs, wait \in BOOLEAN, prompt \in Prompts :
    /\ Free(t)
    /\ calls' = calls + 1
    /\ LET endpoint == Endpoint(model)
           params == GenerateParams(model, wait, prompt)
           tk == [NewTask EXCEPT !.tool = "generate_image", !.model = model,
                                 !.wait = wait, !.prompt = prompt,
                                 !.params = params]
       IN IF ~generateImageSchema(model)
            THEN Settle(t, InvalidParams(tk), activeRequests)
            ELSE IF endpoint = Absent
              THEN Settle(t, [tk EXCEPT !.pc = "done",
                                !.outcome = [TextOutcome("Invalid model", NoId,
                                                         model, "none", Absent,
                                                         Absent)
                                               EXCEPT !.hint = "Valid options"]],
                          activeRequests)
              ELSE Settle(t, [tk EXCEPT !.pc = "submit", !.endpoint = endpoint,
                                        !.payload = RequestBody(params)],
                          activeRequests)
    /\ UNCHANGED <<nextId, now>>

\* the submit POST settled
Submitted(t) ==
  \E resp \in SubmitResponses :
    /\ tasks[t].pc = "submit"
    /\ tasks[t].tool = "generate_image"
    /\ resp.kind = "ok" => nextId < Len(JobIds)
    /\ LET id == IF resp.kind = "ok" THEN JobIds[nextId + 1] ELSE NoId
           tk == [tasks[t] EXCEPT !.submitted =
                     IF resp.kind # "ok" THEN "failed"
                     ELSE IF resp.hasUrl THEN "url" ELSE "nourl"]
       IN Settle(t, GenerateSubmitted(tk, makeBFLRequest(resp, id)),
                 activeRequests)
    /\ nextId' = IF resp.kind = "ok" THEN nextId + 1 ELSE nextId
    /\ UNCHANGED <<now, calls>>

\* a status fetch of the poller settled
PollFetched(t) ==
  \E resp \in Responses :
    /\ tasks[t].pc = "poll"
    /\ tasks[t].tool = "generate_image"
    /\ LET g == getResult(resp)
           tk == IF g.ok THEN PollOnResult(Count(tasks[t], g.body), g.body)
                         ELSE PollOnFetchError(CountFail(tasks[t]), g.err)
       IN Settle(t, GenerateResume(tk), activeRequests)
    /\ UNCHANGED <<nextId, now, calls>>

\* the inter-attempt delay of the poller elapsed
PollSlept(t) ==
  /\ tasks[t].pc = "sleep"
  /\ tasks[t].tool = "generate_image"
  /\ Settle(t, GenerateResume(PollOnSleepDone(tasks[t])), activeRequests)
  /\ UNCHANGED <<nextId, now, calls>>

(* -------------------- current server: download_image -------------------- *)
Paths == {"f1"}
\* the ids downloads and resource reads are asked for: this server keeps
\* nothing per id, so one id stands for all
RequestIds == {"j1"}

\* a return of the handler with a text content block
DownloadReturn(tk, head, detail) ==
  [tk EXCEPT !.pc = "done",
             !.outcome = TextOutcome(head, NoId, "none", "none", Absent, detail)]

\* mutant: the handler has no catch clause
DownloadCatchRethrows(tk, e) ==
  [tk EXCEPT !.pc = "done", !.err = e,
             !.outcome = ErrorOutcome("Failed to download image", e)]

\* the catch clause of the handler
DownloadCatch(tk, e) ==
  [tk EXCEPT !.pc = "done", !.err = e,
             !.outcome = TextOutcome("Failed to download image", NoId, "none",
                                     "none", Absent, e)]

\* mutant: a pending job is not told apart
DownloadStatusCheckedNoPending(tk, g) ==
  IF ~g.ok
    THEN DownloadCatch(CountFail(tk), g.err)
    ELSE LET tk1 == [tk EXCEPT !.result = g.body]
         IN IF g.body.status = "Error"
              THEN DownloadReturn(tk1, "Image generation failed", g.body.error)
              ELSE IF g.body.sample = Absent
                THEN DownloadReturn(tk1, "No image URL found in result", Absent)
                ELSE [tk1 EXCEPT !.pc = "transfer", !.transfers = @ + 1]

\* the handler after getResultById settled with g: the three checks of the
\* job, then the fetch of the image
DownloadStatusChecked(tk, g) ==
  IF ~g.ok
    THEN DownloadCatch(CountFail(tk), g.err)
    ELSE LET tk1 == [tk EXCEPT !.result = g.body]
         IN IF g.body.status = "Error"
              THEN DownloadReturn(tk1, "Image generation failed", g.body.error)
              ELSE IF g.body.status = "Pending"
                THEN DownloadReturn(tk1, "Image generation is still pending", Absent)
                ELSE IF g.body.sample = Absent
                  THEN DownloadReturn(tk1, "No image URL found in result", Absent)
                  ELSE [tk1 EXCEPT !.pc = "transfer", !.transfers = @ + 1]

\* the handler after the fetch of the image settled with r: a non-2xx
\* response is returned as it is, its body neither read nor cancelled; a 2xx
\* response with a body opens the destination and starts the pipeline
DownloadTransferred(tk, r) ==
  IF r.kind = "network"
    THEN DownloadCatch([tk EXCEPT !.transfer = "network"], "fetch failed")
    ELSE IF r.kind = "http"
      THEN DownloadReturn([tk EXCEPT !.transfer = "http", !.bodyOpen = r.hasBody],
                          "Failed to fetch image", Absent)
      ELSE IF ~r.hasBody
        THEN DownloadReturn([tk EXCEPT !.transfer = "nobody"],
                            "No response body available", Absent)
        ELSE [tk EXCEPT !.pc = "pipeline", !.bodyOpen = TRUE, !.fileOpen = TRUE,
                        !.opened = @ + 1]

\* how the pipeline settles: all bytes written, the source failed mid-stream,
\* a write to the destination failed, or the destination could not be opened
PipelineResults == {"ok", "stream", "write", "open"}

\* what the write stream did to the file at path: createWriteStream opens it
\* with flag w, which creates or truncates it, before the first byte
FileAfter(r) ==
  CASE r = "ok" -> "written"
    [] r = "open" -> "untouched"
    [] OTHER -> "partial"

\* the handler after the pipeline settled: the pipeline has closed or
\* destroyed both of its streams
DownloadPiped(tk, r) ==
  LET tk1 == [tk EXCEPT !.transfer = r, !.bodyOpen = FALSE, !.fileOpen = FALSE,
                        !.file = FileAfter(r)]
  IN IF r = "ok"
       THEN [tk1 EXCEPT !.pc = "done",
               !.outcome = [TextOutcome("Image downloaded successfully to", NoId,
                                        "none", "none", Absent, Absent)
                              EXCEPT !.path = tk.path]]
       ELSE DownloadCatch(tk1, "pipeline failed")

\* the host invokes download_image: the handler awaits getResultById
download_image(t) ==
  \E id \in RequestIds, path \in Paths :
    /\ Free(t)
    /\ calls' = calls + 1
    /\ Settle(t, [NewTask EXCEPT !.tool = "download_image", !.id = id,
                                 !.path = path, !.pc = "status",
                                 !.fetches = 1],
              activeRequests)
    /\ UNCHANGED <<nextId, now>>

DownloadStatusFetched(t) ==
  \E resp \in Responses :
    /\ tasks[t].pc = "status"
    /\ tasks[t].tool = "download_image"
    /\ Settle(t, DownloadStatusChecked(tasks[t], getResultById(resp)),
              activeRequests)
    /\ UNCHANGED <<nextId, now, calls>>

DownloadTransferSettled(t) ==
  \E r \in TransferResponses :
    /\ tasks[t].pc = "transfer"
    /\ tasks[t].tool = "download_image"
    /\ Settle(t, DownloadTransferred(tasks[t], r), activeRequests)
    /\ UNCHANGED <<nextId, now, calls>>

DownloadPipelineSettled(t) ==
  \E r \in PipelineResults :
    /\ tasks[t].pc = "pipeline"
    /\ tasks[t].tool = "download_image"
    /\ Settle(t, DownloadPiped(tasks[t], r), activeRequests)
    /\ UNCHANGED <<nextId, now, calls>>

(* ----------------------- current server: resources ---------------------- *)
\* bfl://requests/{requestId}: the handler after getResultById settled; the
\* catch clause throws again
RequestDetailsFetched(tk, g) ==
  IF ~g.ok
    THEN [CountFail(tk) EXCEPT !.pc = "done", !.err = g.err,
            !.outcome = ErrorOutcome("Failed to fetch request details", g.err)]
    ELSE [tk EXCEPT !.pc = "done", !.result = g.body,
            !.outcome = ContentsOutcome(tk.id, "none", g.body.status,
                                        g.body.sample, g.body.error)]

request_details(t) ==
  \E id \in RequestIds :
    /\ Free(t)
    /\ calls' = calls + 1
    /\ Settle(t, [NewTask EXCEPT !.tool = "request_details", !.id = id,
                                 !.pc = "status", !.fetches = 1],
              activeRequests)
    /\ UNCHANGED <<nextId, now>>

RequestDetailsSettled(t) ==
  \E resp \in Responses :
    /\ tasks[t].pc = "status"
    /\ tasks[t].tool = "request_details"
    /\ Settle(t, RequestDetailsFetched(tasks[t], getResultById(resp)),
              activeRequests)
    /\ UNCHANGED <<nextId, now, calls>>

\* bfl://images/{requestId}: the catch clause wraps what was thrown (cause,
\* with the detail it carries) and throws again
ImageCatch(tk, cause, detail) ==
  [tk EXCEPT !.pc = "done", !.err = cause,
             !.outcome = [ErrorOutcome("Failed to download image", detail)
                            EXCEPT !.cause = cause]]

\* the handler after getResultById settled with g
ImageStatusChecked(tk, g) ==
  IF ~g.ok
    THEN ImageCatch(CountFail(tk), g.err, Absent)
    ELSE LET tk1 == [tk EXCEPT !.result = g.body]
         IN IF g.body.status = "Error"
              THEN ImageCatch(tk1, "Image generation failed", g.body.error)
              ELSE IF g.body.status = "Pending"
                THEN ImageCatch(tk1, "Image generation is still pending", Absent)
                ELSE IF g.body.sample = Absent
                  THEN ImageCatch(tk1, "No image URL found in result", Absent)
                  ELSE [tk1 EXCEPT !.pc = "transfer", !.transfers = @ + 1]

\* mutant: the status of the transfer response is not looked at
ImageTransferredIgnoresStatus(tk, r) ==
  IF r.kind = "network"
    THEN ImageCatch([tk EXCEPT !.transfer = "network"], "fetch failed", Absent)
    ELSE [tk EXCEPT !.pc = "buffer", !.bodyOpen = r.hasBody,
                    !.transfer = IF r.kind = "http" THEN "http" ELSE @,
                    !.mimeType = IF r.contentType # Absent
                                   THEN r.contentType ELSE "image/jpeg"]

\* the handler after the fetch of the image settled with r
ImageTransferred(tk, r) ==
  IF r.kind = "network"
    THEN ImageCatch([tk EXCEPT !.transfer = "network"], "fetch failed", Absent)
    ELSE IF r.kind = "http"
      THEN ImageCatch([tk EXCEPT !.transfer = "http", !.bodyOpen = r.hasBody],
                      "Failed to fetch image", Absent)
      ELSE [tk EXCEPT !.pc = "buffer", !.bodyOpen = r.hasBody,
                      !.mimeType = IF r.contentType # Absent
                                     THEN r.contentType ELSE "image/jpeg"]

\* how arrayBuffer() settles: with the bytes of the body, or rejected when
\* the body fails mid-stream
BufferResults ==
  {[ok |-> TRUE, bytes |-> b] : b \in Bytes} \cup {[ok |-> FALSE, bytes |-> ""]}

\* the handler after arrayBuffer() settled with r
ImageBuffered(tk, r) ==
  IF r.ok
    THEN [tk EXCEPT !.pc = "done", !.bodyOpen = FALSE,
            !.transfer = IF @ = "none" THEN "ok" ELSE @,
            !.outcome = [NoOutcome EXCEPT !.channel = "contents",
                                          !.head = "image",
                                          !.mimeType = tk.mimeType,
                                          !.blob = Base64(r.bytes)]]
    ELSE ImageCatch([tk EXCEPT !.transfer = "stream", !.bodyOpen = FALSE],
                    "terminated", Absent)

image(t) ==
  \E id \in RequestIds :
    /\ Free(t)
    /\ calls' = calls + 1
    /\ Settle(t, [NewTask EXCEPT !.tool = "image", !.id = id, !.pc = "status",
                                 !.fetches = 1],
              activeRequests)
    /\ UNCHANGED <<nextId, now>>

ImageStatusFetched(t) ==
  \E resp \in Responses :
    /\ tasks[t].pc = "status"
    /\ tasks[t].tool = "image"
    /\ Settle(t, ImageStatusChecked(tasks[t], getResultById(resp)),
              activeRequests)
    /\ UNCHANGED <<nextId, now, calls>>

ImageTransferSettled(t) ==
  \E r \in TransferResponses :
    /\ tasks[t].pc = "transfer"
    /\ tasks[t].tool = "image"
    /\ Settle(t, ImageTransferred(tasks[t], r), activeRequests)
    /\ UNCHANGED <<nextId, now, calls>>

\* a missing body reads as no bytes and cannot fail
ImageBufferSettled(t) ==
  \E r \in BufferResults :
    /\ tasks[t].pc = "buffer"
    /\ tasks[t].tool = "image"
    /\ ~tasks[t].bodyOpen => (r.ok /\ r.bytes = "")
    /\ Settle(t, ImageBuffered(tasks[t], r), activeRequests)
    /\ UNCHANGED <<nextId, now, calls>>

(* --------------------------- specifications ---------------------------- *)
\* the registry server
Next ==
  \E t \in Tasks :
    \/ generate_image_flux(t)
    \/ LegacySubmitOk(t)
    \/ LegacySubmitFail(t)
    \/ LegacyPollFetched(t)
    \/ LegacyPollSlept(t)
    \/ get_request_status(t)
    \/ StatusFetched(t)
    \/ LegacyRequestDetails(t)

Spec == Init /\ [][Next]_vars

\* the registry server called with every combination of parameters: the
\* body is built in the stretch that starts the invocation, so one slot and
\* a failing submit call are enough to see every body
NextPayload ==
  \E t \in {1} :
    \/ generate_image_flux_with(t)
    \/ LegacySubmitFail(t)

SpecPayload == Init /\ [][NextPayload]_vars

\* the current server
NextIndex ==
  \E t \in Tasks :
    \/ generate_image(t)
    \/ Submitted(t)
    \/ PollFetched(t)
    \/ PollSlept(t)
    \/ download_image(t)
    \/ DownloadStatusFetched(t)
    \/ DownloadTransferSettled(t)
    \/ DownloadPipelineSettled(t)
    \/ request_details(t)
    \/ RequestDetailsSettled(t)
    \/ image(t)
    \/ ImageStatusFetched(t)
    \/ ImageTransferSettled(t)
    \/ ImageBufferSettled(t)

SpecIndex == Init /\ [][NextIndex]_vars

\* generate_image of the current server, one invocation at a time (this
\* server shares nothing between invocations), with every awaited promise
\* settling in the end: the submit call and each status fetch respond or
\* fail, and each timer fires
NextWait ==
  \E t \in {1} :
    \/ generate_image(t)
    \/ Submitted(t)
    \/ PollFetched(t)
    \/ PollSlept(t)

AwaitsSettle ==
  \A t \in Tasks :
    /\ WF_vars(Submitted(t))
    /\ WF_vars(PollFetched(t))
    /\ WF_vars(PollSlept(t))

SpecWait == Init /\ [][NextWait]_vars /\ AwaitsSettle

(* ------------------------------ claims --------------------------------- *)
FetchErrors == {"BFL API error", "fetch failed", "SyntaxError", "ZodError"}
GenerateTools == LegacyTools \cup {"generate_image"}

\* C1: once the recorded status of a registry entry is Ready or Error, no
\* step makes it Pending again.
C1_NoRegression ==
  [][\A id \in DOMAIN activeRequests :
       activeRequests[id].status \in {"Ready", "Error"}
         => activeRequests'[id].status # "Pending"]_vars

\* C2: the poller returns at the first terminal response: no invocation goes
\* on polling after a Ready or Error body, and when the k-th body is the first
\* terminal one the poller returns that body after k fetches and k-1 delays.
C2_ReturnsFirstTerminal ==
  /\ \A t \in Tasks : tasks[t].terminals = 0
  /\ (returned.tool = "generate_image" /\ returned.terminals > 0)
       => /\ returned.result = returned.firstTerminal
          /\ returned.firstAt \in 1..maxAttempts
          /\ returned.received = returned.firstAt
          /\ returned.fetches = returned.firstAt
          /\ returned.delays = returned.firstAt - 1

\* the example of the specification: Pending, Pending, Ready
C2_Witness ==
  /\ returned.tool = "generate_image"
  /\ returned.result.status = "Ready"
  /\ returned.fetches = 3
  /\ returned.delays = 2

\* C3: a poll that is answered Pending every time throws the polling timeout
\* after exactly maxAttempts fetches: never with fewer, and no invocation
\* ever issues more than maxAttempts fetches.
C3_TimeoutAfterMaxAttempts ==
  /\ \A t \in Tasks : tasks[t].fetches <= maxAttempts
  /\ returned.fetches <= maxAttempts
  /\ returned.err = "Polling timeout"
       => /\ returned.fetches = maxAttempts
          /\ returned.received = maxAttempts
          /\ returned.terminals = 0
          /\ returned.failed = 0
  /\ (returned.tool = "generate_image" /\ returned.received = maxAttempts
        /\ returned.terminals = 0)
       => returned.err = "Polling timeout"

C3_Witness ==
  /\ returned.tool = "generate_image"
  /\ returned.err = "Polling timeout"
  /\ returned.outcome.channel = "text"

\* C4: a failed status fetch ends the poll at once: no invocation is still
\* polling after a failed fetch, and the invocation returns that failure with
\* no fetch and no delay after it, whatever is left of the budget.
C4_FetchFailureAborts ==
  /\ \A t \in Tasks : tasks[t].failed = 0
  /\ (returned.tool \in GenerateTools /\ returned.failed > 0)
       => /\ returned.failed = 1
          /\ returned.err \in FetchErrors
          /\ returned.outcome.error = returned.err
          /\ returned.fetches = returned.received + 1
          /\ returned.delays = returned.received

\* a failure at the second fetch, with one attempt left
C4_Witness ==
  /\ returned.tool \in LegacyTools
  /\ returned.failed = 1
  /\ returned.received = 1
  /\ returned.fetches < maxAttempts

\* C5 as stated: when a generate invocation ends in a polling timeout the
\* entry of its job has status Pending, and a later get_request_status whose
\* fetch returns Ready or Error moves the entry to that status.
C5_TimeoutLeavesPending ==
  /\ (returned.tool \in LegacyTools /\ returned.err = "Polling timeout")
       => /\ returned.id \in DOMAIN activeRequests
          /\ activeRequests[returned.id].status = "Pending"
  /\ (returned.tool = "get_request_status" /\ returned.id \in timedOut
        /\ IsTerminal(returned.firstTerminal))
       => activeRequests[returned.id].status = returned.firstTerminal.status

\* C5 as amended: the timeout exit leaves the registry as it is, with the
\* entry of the job in it; an entry leaves Pending only in a step that returns
\* a get_request_status for its id or the terminal result of a poll for its
\* id; and a get_request_status for a timed-out job whose fetch returns Ready
\* or Error moves the entry to that status.
C5_TimeoutKeepsEntry ==
  [][/\ (returned'.tool \in LegacyTools /\ returned'.err = "Polling timeout")
          => /\ returned'.id \in DOMAIN activeRequests
             /\ activeRequests' = activeRequests
     /\ \A id \in DOMAIN activeRequests :
          (activeRequests[id].status = "Pending"
             /\ activeRequests'[id].status # "Pending")
            => /\ returned'.id = id
               /\ \/ returned'.tool = "get_request_status"
                  \/ IsTerminal(returned'.firstTerminal)
     /\ (returned'.tool = "get_request_status" /\ returned'.id \in timedOut
           /\ IsTerminal(returned'.firstTerminal))
          => activeRequests'[returned'.id].status = returned'.firstTerminal.status
    ]_vars

\* a job whose poll timed out is resolved by a later status query
C5_Witness ==
  /\ returned.tool = "get_request_status"
  /\ returned.id \in timedOut
  /\ returned.firstTerminal.status = "Ready"
  /\ activeRequests[returned.id].status = "Ready"

\* what generate_image returns for a provider error
ProviderErrorOutcome == GenerateFinish(Throw(NewTask, "BFL API error")).outcome

\* C6: the outcome of a polling timeout differs from the outcome of a
\* provider error and tells the caller to check the status later.
C6_TimeoutDistinctOutcome ==
  (returned.tool = "generate_image" /\ returned.err = "Polling timeout")
    => /\ returned.outcome.head # ProviderErrorOutcome.head
       /\ returned.outcome.hint = "bfl://requests"

\* C7: with wait = false the invocation returns in the stretch in which the
\* submit call succeeds, with the id the provider assigned and the model, with
\* no result locator, and without a status fetch or a delay.
C7_NoWaitReturnsAtOnce ==
  /\ \A t \in Tasks : ~tasks[t].wait => tasks[t].pc = "submit"
  /\ (returned.tool = "generate_image" /\ ~returned.wait)
       => /\ returned.fetches = 0
          /\ returned.delays = 0
          /\ returned.err = "none"
               => /\ returned.outcome.head = "Image generation request submitted."
                  /\ returned.outcome.id = JobIds[nextId]
                  /\ returned.outcome.model = returned.model
                  /\ returned.outcome.url = Absent

C7_Witness ==
  /\ returned.tool = "generate_image"
  /\ ~returned.wait
  /\ returned.outcome.id = "j2"
  /\ returned.outcome.model = "flux-kontext-pro"

\* C8: a success outcome carries the id of the submit call and the locator of
\* the terminal Ready response, and never lacks a locator.
C8_SuccessCarriesLocator ==
  (returned.tool = "generate_image"
     /\ returned.outcome.head = "Image generated successfully!")
    => /\ returned.outcome.id = returned.id
       /\ returned.outcome.url = returned.firstTerminal.sample
       /\ returned.outcome.url # Absent

\* C9: when a generate invocation returns after its poll reached a terminal
\* response, the entry of its job has that status, with the locator of the
\* response when Ready and its error detail when Error, and on Error the
\* outcome is a failure carrying that detail.
C9_EntryMatchesTerminal ==
  (returned.tool \in LegacyTools /\ returned.terminals > 0)
    => /\ returned.id \in DOMAIN activeRequests
       /\ LET e == activeRequests[returned.id]
              b == returned.firstTerminal
          IN /\ e.status = b.status
             /\ b.status = "Ready" => e.result = b.sample
             /\ b.status = "Error"
                  => /\ e.error = b.error
                     /\ returned.outcome.head = "Image generation failed"
                     /\ returned.outcome.error = b.error

C9_Witness ==
  /\ returned.tool = "generate_image_flux_pro"
  /\ returned.firstTerminal.status = "Error"
  /\ returned.firstTerminal.error = "e1"
  /\ activeRequests[returned.id].error = "e1"

\* C10: the registry holds exactly the ids that successful submit calls
\* returned; the entry is created Pending in the stretch that issues the
\* first status fetch of the job, so a polling invocation always has its
\* entry; a failed submit and a status query for an id the registry lacks
\* leave the registry unchanged.
C10_EntryIffSubmitted ==
  [][/\ DOMAIN activeRequests' = {JobIds[n] : n \in 1..nextId'}
     /\ \A id \in DOMAIN activeRequests' \ DOMAIN activeRequests :
          /\ activeRequests'[id].status = "Pending"
          /\ \E t \in Tasks :
               /\ tasks[t].pc = "submit"
               /\ tasks[t].fetches = 0
               /\ tasks'[t].id = id
               /\ tasks'[t].fetches = 1
     /\ \A t \in Tasks :
          (tasks'[t].tool \in LegacyTools /\ tasks'[t].fetches > 0)
            => tasks'[t].id \in DOMAIN activeRequests'
     /\ (returned'.tool \in LegacyTools /\ returned'.id = NoId)
          => activeRequests' = activeRequests
     /\ (returned'.tool = "get_request_status"
           /\ returned'.id \notin DOMAIN activeRequests)
          => activeRequests' = activeRequests
    ]_vars

\* a status query for an id the registry lacks, answered Ready, beside a
\* registered job
C10_Witness ==
  /\ returned.tool = "get_request_status"
  /\ returned.id \notin DOMAIN activeRequests
  /\ returned.result.status = "Ready"
  /\ activeRequests # NoRequests

StatusQueries == {"get_request_status", "request_details"}

\* C11: a status query for an id the registry lacks contacts the provider and
\* fails only when the provider call fails, on the tool and on the resource.
C11_RegistryMissAsksProvider ==
  (returned.tool \in StatusQueries /\ returned.pc = "done"
     /\ returned.id \notin DOMAIN activeRequests)
    => /\ returned.fetches >= 1
       /\ (returned.outcome.channel = "error"
             \/ returned.outcome.head = "Failed to get status")
            => returned.failed > 0

Resources == {"request_details", "image"}
\* the job is not in a state an image can be fetched from
NotFetchable(b) ==
  \/ b.status \in {"Pending", "Error"}
  \/ b.status = "Ready" /\ b.sample = Absent
\* the read met a failed provider call, a job without a fetchable image, or
\* a failed transfer
ReadFailed(tk) ==
  \/ tk.failed > 0
  \/ tk.tool = "image" /\ NotFetchable(tk.result)
  \/ tk.transfer \in {"network", "http", "stream"}

\* C12: a read of bfl://requests/{id} or bfl://images/{id} that met a failed
\* provider call, a job without a fetchable image or a failed transfer ends
\* in a protocol-level error and hands back no content.
C12_ReadFailureIsError ==
  (returned.tool \in Resources /\ ReadFailed(returned))
    => /\ returned.outcome.channel = "error"
       /\ returned.outcome.blob = Absent
       /\ returned.outcome.url = Absent
       /\ returned.outcome.status = "none"

\* the image server answered the transfer with a non-2xx status
C12_Witness ==
  /\ returned.tool = "image"
  /\ returned.transfer = "http"
  /\ returned.outcome.channel = "error"
  /\ returned.outcome.cause = "Failed to fetch image"

Tools == {"generate_image", "download_image", "get_request_status"}

\* C13: every invocation a tool handler is entered for ends with the handler
\* returning a text content block; no error leaves the handler.
C13_ToolsReturnText ==
  (returned.tool \in Tools /\ returned.err # "InvalidParams")
    => /\ returned.outcome.channel = "text"
       /\ returned.outcome.head # "none"

\* a download whose source failed mid-stream
C13_Witness ==
  /\ returned.tool = "download_image"
  /\ returned.transfer = "stream"
  /\ returned.outcome.channel = "text"
  /\ returned.outcome.head = "Failed to download image"

\* the outcome carries message m, as its own words or as the wrapped cause
Says(o, m) == o.head = m \/ o.cause = m
Downloads == {"download_image", "image"}

\* C14: the download tool and the image resource answer a Pending job with
\* the not-ready message and an Error job with the generation-failed message
\* and its detail; for these and for a Ready job without a locator no
\* transfer is started and no destination file is opened, and an invocation
\* that started a transfer holds a Ready result with a locator.
C14_NoTransferUnlessReady ==
  /\ \A t \in Tasks :
       (tasks[t].transfers > 0 \/ tasks[t].opened > 0)
         => (tasks[t].result.status = "Ready" /\ tasks[t].result.sample # Absent)
  /\ returned.tool \in Downloads
       => /\ returned.result.status = "Pending"
               => Says(returned.outcome, "Image generation is still pending")
          /\ returned.result.status = "Error"
               => /\ Says(returned.outcome, "Image generation failed")
                  /\ returned.outcome.error = returned.result.error
          /\ NotFetchable(returned.result)
               => /\ returned.transfers = 0
                  /\ returned.opened = 0
                  /\ returned.transfer = "none"
                  /\ ~returned.bodyOpen
                  /\ ~returned.fileOpen

\* a download of a job that is still pending
C14_Witness ==
  /\ returned.tool = "download_image"
  /\ returned.result.status = "Pending"
  /\ returned.outcome.head = "Image generation is still pending"
  /\ returned.transfers = 0

\* C15: when download_image returns, by whichever exit, the body of the
\* transfer response and the destination file are closed.
C15_NothingLeftOpen ==
  returned.tool = "download_image"
    => (~returned.bodyOpen /\ ~returned.fileOpen)

\* a status fetch of the invocation in slot t is in flight
InFlight(t) == tasks[t].pc \in {"poll", "status"}

\* C16: no two status fetches for the same job id are in flight at the same
\* time, whichever invocations issued them.
C16_OneFetchPerJob ==
  \A t, u \in Tasks :
    (t # u /\ InFlight(t) /\ InFlight(u)) => tasks[t].id # tasks[u].id

\* C17: a step changes the registry entry of a job only when it returns an
\* invocation made for that job; a status query returns the status, locator
\* and error of the fetch made for its own id, and a details read returns the
\* fields of the entry filed under its own id.
C17_JobsIsolated ==
  [][/\ \A id \in DOMAIN activeRequests :
          activeRequests'[id] # activeRequests[id]
            => /\ returned'.id = id
               /\ returned'.tool \in LegacyTools \cup {"get_request_status"}
     /\ (returned'.tool = "get_request_status" /\ returned'.failed = 0)
          => /\ returned'.outcome.id = returned'.id
             /\ returned'.outcome.status = returned'.result.status
             /\ returned'.outcome.url \in {Absent, returned'.result.sample}
             /\ returned'.outcome.error \in {Absent, returned'.result.error}
     /\ (returned'.tool = "request_details"
           /\ returned'.id \in DOMAIN activeRequests')
          => LET e == activeRequests'[returned'.id]
             IN /\ e.id = returned'.id
                /\ returned'.outcome.id = e.id
                /\ returned'.outcome.status = e.status
                /\ returned'.outcome.url = e.result
                /\ returned'.outcome.error = e.error
    ]_vars

\* a status query moved j1 to Ready while j2 stays Pending
C17_Witness ==
  /\ returned.tool = "get_request_status"
  /\ returned.id = "j1"
  /\ DOMAIN activeRequests = {"j1", "j2"}
  /\ activeRequests["j1"].status = "Ready"
  /\ activeRequests["j2"].status = "Pending"

\* C18: generate_image posts to the one path the table gives for the model,
\* a different path for each of the five models; a call with any other model
\* string fails naming the valid options, and no request is sent for it.
C18_ModelSelectsEndpoint ==
  /\ \A m1, m2 \in Models :
       /\ MODEL_ENDPOINTS[m1] \notin {Absent, "none", "[inherited]"}
       /\ MODEL_ENDPOINTS[m1] = MODEL_ENDPOINTS[m2] => m1 = m2
  /\ \A t \in Tasks :
       tasks[t].tool = "generate_image"
         => /\ tasks[t].model \in Models
            /\ tasks[t].endpoint = MODEL_ENDPOINTS[tasks[t].model]
  /\ (returned.tool = "generate_image" /\ returned.model \in Models)
       => returned.endpoint = MODEL_ENDPOINTS[returned.model]
  /\ (returned.tool = "generate_image" /\ returned.model \notin Models)
       => /\ returned.outcome.head \in {"Invalid arguments", "Invalid model"}
          /\ returned.outcome.hint = "Valid options"
          /\ returned.endpoint = "none"
          /\ returned.submitted = "none"
          /\ returned.fetches = 0

\* a model string that names an inherited member of the table object
C18_Witness ==
  /\ returned.tool = "generate_image"
  /\ returned.model = "constructor"
  /\ returned.outcome.hint = "Valid options"
  /\ returned.submitted = "none"

\* C19: when the submit call is answered 2xx with an id and no polling URL,
\* the submit does not fail: the invocation has the id, polls the endpoint
\* made from the id, and with wait set goes on to fetch the status.
C19_PollingUrlSynthesized ==
  (returned.tool = "generate_image" /\ returned.submitted = "nourl")
    => /\ returned.id # NoId
       /\ returned.pollingUrl = PollingUrl(returned.id)
       /\ returned.wait => returned.fetches >= 1

\* C20: every registry entry has a result only when its status is Ready and
\* an error only when its status is Error.
C20_ResultOnlyIfReady ==
  \A id \in DOMAIN activeRequests :
    /\ activeRequests[id].result # Absent => activeRequests[id].status = "Ready"
    /\ activeRequests[id].error # Absent => activeRequests[id].status = "Error"

\* C21: the status of every registry entry is Pending, Ready or Error, and no
\* invocation takes a 2xx answer with another status as a status of the job:
\* such an answer is a failed fetch, not a received one.
C21_StatusInEnum ==
  /\ \A id \in DOMAIN activeRequests :
       activeRequests[id].status \in {"Pending", "Ready", "Error"}
  /\ \A t \in Tasks : tasks[t].result.status \in {"none", "Pending", "Ready", "Error"}
  /\ returned.result.status \in {"none", "Pending", "Ready", "Error"}

\* the body holds the keys of the arguments other than model and wait, each
\* with the value of the arguments
PayloadFaithful(tk) ==
  /\ DOMAIN tk.payload = (DOMAIN tk.params) \ {"model", "wait"}
  /\ \A k \in DOMAIN tk.payload : tk.payload[k] = tk.params[k]

\* C22: the body a generate tool posts has every parameter the caller
\* supplied with the value supplied, has neither model nor wait, and has no
\* key for a parameter the caller left out.
C22_PayloadIsParams ==
  /\ \A t \in Tasks :
       tasks[t].tool \in GenerateTools => PayloadFaithful(tasks[t])
  /\ (returned.tool \in GenerateTools /\ returned.endpoint # "none")
       => PayloadFaithful(returned)

\* the ways a wait-mode generate invocation can end
EndsWithResult(tk) ==
  tk.err = "none" /\ tk.terminals = 1 /\ IsTerminal(tk.result)
EndsWithFailure(tk) == tk.err \in FetchErrors /\ tk.terminals = 0
EndsWithTimeout(tk) == tk.err = "Polling timeout" /\ tk.terminals = 0

\* C23: when every provider call responds or fails and every timer fires,
\* a wait-mode generate invocation that was started returns, and it returns
\* with exactly one of a terminal result, a failed call or a polling timeout.
C23_WaitModeReturns ==
  /\ \A t \in Tasks :
       (tasks[t].pc # "idle" /\ tasks[t].wait) ~> (tasks[t].pc = "idle")
  /\ []((returned.tool = "generate_image" /\ returned.wait
           /\ returned.err # "InvalidParams")
          => \/ EndsWithResult(returned) /\ ~EndsWithFailure(returned)
                  /\ ~EndsWithTimeout(returned)
             \/ EndsWithFailure(returned) /\ ~EndsWithResult(returned)
                  /\ ~EndsWithTimeout(returned)
             \/ EndsWithTimeout(returned) /\ ~EndsWithResult(returned)
                  /\ ~EndsWithFailure(returned))

\* a wait-mode invocation that was answered Pending to the end
C23_Witness ==
  /\ returned.tool = "generate_image"
  /\ returned.wait
  /\ EndsWithTimeout(returned)
  /\ returned.fetches = maxAttempts

\* C24: no step removes a registry entry or changes the id, model, prompt or
\* createdAt of one: whatever a generate invocation or get_request_status
\* writes to an entry, it writes to status, result and error.
C24_EntryFieldsFrozen ==
  [][\A id \in DOMAIN activeRequests :
       /\ id \in DOMAIN activeRequests'
       /\ activeRequests'[id].id = activeRequests[id].id
       /\ activeRequests'[id].model = activeRequests[id].model
       /\ activeRequests'[id].prompt = activeRequests[id].prompt
       /\ activeRequests'[id].createdAt = activeRequests[id].createdAt
    ]_vars

\* the second job, moved to Ready by a status query, as it was filed
C24_Witness ==
  /\ returned.tool = "get_request_status"
  /\ returned.id = "j2"
  /\ "j2" \in DOMAIN activeRequests
  /\ activeRequests["j2"].status = "Ready"
  /\ activeRequests["j2"].createdAt = 1
  /\ activeRequests["j2"].prompt = "p1"
  /\ activeRequests["j2"].model \in {LegacyModel(tool) : tool \in LegacyTools}

\* C25: at every exit of pollUntilComplete, the polling timeout included, the
\* delays performed are one fewer than the status fetches issued.
C25_DelaysBetweenFetches ==
  (returned.tool \in GenerateTools /\ returned.fetches >= 1)
    => returned.delays = returned.fetches - 1

\* C26: a download_image that returns anything but the success confirmation
\* has not created, truncated or written the file at file_path.
C26_FailureLeavesFile ==
  /\ (returned.tool = "download_image"
        /\ returned.outcome.head # "Image downloaded successfully to")
       => returned.file = "untouched"
  /\ (returned.tool = "download_image"
        /\ returned.outcome.head = "Image downloaded successfully to")
       => returned.file = "written"

====
